---- MODULE Spec2Model ----
(***************************************************************************)
(* Model of src/src/mcp-jira/jira.py: the JiraFetcher facade over the      *)
(* atlassian Jira client.                                                  *)
(*                                                                         *)
(* Python values are tagged records:                                       *)
(*   [t |-> "none"]                 None                                   *)
(*   [t |-> "int",  n |-> 7]        an int                                 *)
(*   [t |-> "str",  s |-> <<..>>]   a str, as the sequence of its pieces   *)
(*   [t |-> "list", l |-> <<..>>]   a list                                 *)
(*   [t |-> "dict", d |-> f]        a dict, f a function on its keys       *)
(* A piece of a str is one character, or an atom of several characters     *)
(* none of which is a markup character, a newline, a space, 'Z' or '/'.    *)
(***************************************************************************)
EXTENDS Integers, Sequences, FiniteSets, TLC

VARIABLES env, fetcher, pc, op, script, calls, result, py311, prev

vars == <<env, fetcher, pc, op, script, calls, result, py311, prev>>

(***************************************************************************)
(* env      the process environment (JIRA_SITE, JIRA_EMAIL, JIRA_API_TOKEN) *)
(* py311    whether the interpreter is Python 3.11 or later                 *)
(* fetcher  the JiraFetcher object, NoFetcher until it is constructed       *)
(* pc       the caller: "start", "failed" (the constructor raised),         *)
(*          "idle" (between calls), "returned" (a method has returned)      *)
(* op       the method invoked last and its arguments                       *)
(* script   what the external client does on each successive call of that  *)
(*          invocation: returns a value or raises                           *)
(* calls    the client calls that invocation made, in order                 *)
(* result   what the invocation returned or raised                          *)
(* prev     the method and arguments of the invocation before it            *)
(***************************************************************************)

----------------------------------------------------------------------------
(* Bounds of the model *)

MaxLen == 6
MaxIssues == 2
MaxComments == 2
MaxProjects == 2

----------------------------------------------------------------------------
(* Python values *)

None == [t |-> "none"]
PyInt(n) == [t |-> "int", n |-> n]
Str(s) == [t |-> "str", s |-> s]
List(l) == [t |-> "list", l |-> l]
Dict(f) == [t |-> "dict", d |-> f]
EmptyDict == Dict([k \in {} |-> None])
EmptyStr == Str(<<>>)

IsNone(v) == v.t = "none"
IsStr(v) == v.t = "str"
IsDict(v) == v.t = "dict"
IsList(v) == v.t = "list"

\* bool(v)
Truthy(v) ==
    CASE v.t = "none" -> FALSE
      [] v.t = "int" -> v.n # 0
      [] v.t = "str" -> v.s # <<>>
      [] v.t = "list" -> v.l # <<>>
      [] v.t = "dict" -> DOMAIN v.d # {}

\* The outcome of evaluating an expression or a call: a value or an exception.
Ret(v) == [ok |-> TRUE, v |-> v]
Raise(e) == [ok |-> FALSE, exc |-> e]

\* d.get(k, default) on a dict d
DictGet(d, k, default) == IF k \in DOMAIN d.d THEN d.d[k] ELSE default

----------------------------------------------------------------------------
(* _clean_text: the regular-expression substitutions, piece by piece *)

NL == "\n"
SP == " "
ColorOpen == <<"{", "c", "o", "l", "o", "r", ":">>
ColorClose == <<"{", "c", "o", "l", "o", "r", "}">>

\* s[i ..] starts with pat
StartsAt(s, i, pat) ==
    /\ i + Len(pat) - 1 <= Len(s)
    /\ SubSeq(s, i, i + Len(pat) - 1) = pat

\* The least index in a set of indices, 0 for the empty set
Least(hits) ==
    IF hits = {} THEN 0 ELSE CHOOSE j \in hits : \A k \in hits : j <= k

\* r'\{color:[^}]+\}'
ColorTagEnd(s, i) ==
    IF ~StartsAt(s, i, ColorOpen) THEN 0
    ELSE LET close == Least({j \in (i + 7)..Len(s) : s[j] = "}"})
         IN IF close > i + 7 THEN close ELSE 0

\* the literal '{color}' of text.replace
ColorCloseEnd(s, i) == IF StartsAt(s, i, ColorClose) THEN i + 6 ELSE 0

\* r'\{\{.*?\}\}' with DOTALL: the nearest '}}' at or after i + 2
CodeSpanEnd(s, i) ==
    IF ~StartsAt(s, i, <<"{", "{">>) THEN 0
    ELSE LET close == Least({j \in (i + 2)..Len(s) : StartsAt(s, j, <<"}", "}">>)})
         IN IF close = 0 THEN 0 ELSE close + 1

\* [^\]]*?! from index `from`: the nearest '!' with no ']' before it
LazyToBang(s, from) ==
    LET bang == Least({j \in from..Len(s) : s[j] = "!"})
    IN IF bang # 0 /\ \A k \in from..(bang - 1) : s[k] # "]" THEN bang ELSE 0

\* r'!\[?[^\]]*?!': the optional '[' is tried first, then skipped
ImageEnd(s, i) ==
    IF s[i] # "!" THEN 0
    ELSE LET withBracket == IF i + 1 <= Len(s) /\ s[i + 1] = "["
                            THEN LazyToBang(s, i + 2) ELSE 0
         IN IF withBracket # 0 THEN withBracket ELSE LazyToBang(s, i + 1)

\* [^\]]+\] from index `from`: at least one non-']' piece, then the first ']'
TargetEnd(s, from) ==
    LET close == Least({j \in from..Len(s) : s[j] = "]"})
    IN IF close > from THEN close ELSE 0

\* r'\[(.*?)\|[^\]]+\]': the nearest '|' on the same line after which a
\* target matches; 0 when there is none.
LinkBar(s, i) ==
    IF s[i] # "[" THEN 0
    ELSE Least({p \in (i + 1)..Len(s) :
                    /\ s[p] = "|"
                    /\ \A k \in (i + 1)..(p - 1) : s[k] # NL
                    /\ TargetEnd(s, p + 1) # 0})

LinkEnd(s, i) ==
    LET bar == LinkBar(s, i) IN IF bar = 0 THEN 0 ELSE TargetEnd(s, bar + 1)

\* the replacement r'\1': the display text
LinkText(s, i, e) == SubSeq(s, i + 1, LinkBar(s, i) - 1)

\* r'\n+' replaced by '\n'
NewlinesEnd(s, i) ==
    IF s[i] # NL THEN 0
    ELSE LET stop == Least({j \in i..Len(s) : s[j] # NL})
         IN IF stop = 0 THEN Len(s) ELSE stop - 1

OneNewline(s, i, e) == <<NL>>

\* The last index of the match of a pattern starting at s[i] (0: no match).
MatchEnd(pattern, s, i) ==
    CASE pattern = "color_tag" -> ColorTagEnd(s, i)
      [] pattern = "color_close" -> ColorCloseEnd(s, i)
      [] pattern = "code_span" -> CodeSpanEnd(s, i)
      [] pattern = "image" -> ImageEnd(s, i)
      [] pattern = "link" -> LinkEnd(s, i)
      [] pattern = "newlines" -> NewlinesEnd(s, i)

\* What replaces the match s[i..e].
Replacement(pattern, s, i, e) ==
    CASE pattern = "link" -> LinkText(s, i, e)
      [] pattern = "newlines" -> OneNewline(s, i, e)
      [] OTHER -> <<>>

\* re.sub / str.replace from index i on: leftmost matches, not overlapping
\* (no pattern here matches the empty string).
RECURSIVE ReSub(_, _, _)
ReSub(pattern, s, i) ==
    IF i > Len(s) THEN <<>>
    ELSE CHOOSE out \in
            {IF e = 0
             THEN <<s[i]>> \o ReSub(pattern, s, i + 1)
             ELSE Replacement(pattern, s, i, e) \o ReSub(pattern, s, e + 1) :
             e \in {MatchEnd(pattern, s, i)}} : TRUE

IsSpace(c) == c \in {SP, NL}

\* str.strip()
Strip(s) ==
    LET first == Least({j \in 1..Len(s) : ~IsSpace(s[j])})
        inner == {j \in 1..Len(s) : ~IsSpace(s[j])}
    IN IF first = 0 THEN <<>>
       ELSE SubSeq(s, first, CHOOSE j \in inner : \A k \in inner : k <= j)

\* The substitutions of _clean_text on a non-empty str, in the code's order:
\* each assignment to `text` is one binding (a singleton set, so that every
\* intermediate text is computed once).
CleanPieces(s) ==
    CHOOSE cleaned \in
        {Strip(ReSub("newlines", t5, 1)) :
            t5 \in {ReSub("link", t4, 1) :
            t4 \in {ReSub("image", t3, 1) :
            t3 \in {ReSub("code_span", t2, 1) :
            t2 \in {ReSub("color_close", t1, 1) :
            t1 \in {ReSub("color_tag", s, 1)}}}}}} : TRUE

\* _clean_text(text): '' for a falsy argument, TypeError from re.sub for a
\* truthy argument that is no str.
CleanText(text) ==
    IF ~Truthy(text) THEN Ret(EmptyStr)
    ELSE IF ~IsStr(text)
         THEN Raise([type |-> "TypeError",
                     msg |-> <<"expected string or bytes-like object">>])
    ELSE Ret(Str(CleanPieces(text.s)))

----------------------------------------------------------------------------
(* Strings, formatting and dates *)

\* A str of one atom
Atom(a) == Str(<<a>>)

\* An exception object; str(e) is its message
Exc(type, msg) == [type |-> type, msg |-> msg]
StrOfExc(e) == Str(e.msg)

NoAttribute(v, name) ==
    Raise(Exc("AttributeError", <<v.t, " object has no attribute ", name>>))

\* v.get(k, default): only a dict has the attribute
PyGet(v, k, default) ==
    IF IsDict(v) THEN Ret(DictGet(v, k, default)) ELSE NoAttribute(v, "get")

\* fields.get(k, {}).get(sub, default) on a dict `fields`
NestedGet(fields, k, sub, default) ==
    PyGet(DictGet(fields, k, EmptyDict), sub, default)

\* The pieces an f-string puts for {v}
Format(v) ==
    CASE v.t = "str" -> v.s
      [] v.t = "none" -> <<"None">>
      [] OTHER -> <<"<", v.t, ">">>

\* s.rstrip('/')
RECURSIVE RStripSlash(_)
RStripSlash(s) ==
    IF s # <<>> /\ s[Len(s)] = "/" THEN RStripSlash(SubSeq(s, 1, Len(s) - 1)) ELSE s

\* "1970-01-01T00:00:00.000+0000"
DefaultCreated == Str(<<"1970-01-01", "T", "00:00:00", ".000", "+0000">>)

DateAtoms == {"1970-01-01", "2024-01-15", "2024-02-29"}
TimeAtoms == {"00:00:00", "10:30:00"}
FractionAtoms == {".000", ".123456"}

\* UTC offsets datetime.fromisoformat accepts: "+HH:MM" always, the basic
\* form "+HHMM" from Python 3.11 on.
OffsetAtoms(modern) == IF modern THEN {"+00:00", "+0000"} ELSE {"+00:00"}

\* s.replace("Z", "+00:00")
ReplaceZ(s) == [i \in DOMAIN s |-> IF s[i] = "Z" THEN "+00:00" ELSE s[i]]

\* datetime.fromisoformat(s).strftime("%Y-%m-%d"): the date of
\* YYYY-MM-DD[Thh:mm:ss[.fff][+hh:mm]], ValueError for anything else.
IsoDate(s, modern) ==
    LET n == Len(s)
        wellFormed ==
            /\ n \in {1, 3, 4, 5}
            /\ s[1] \in DateAtoms
            /\ n >= 3 => s[2] = "T" /\ s[3] \in TimeAtoms
            /\ n = 4 => s[4] \in FractionAtoms \cup OffsetAtoms(modern)
            /\ n = 5 => s[4] \in FractionAtoms /\ s[5] \in OffsetAtoms(modern)
    IN IF wellFormed THEN Ret(Atom(s[1]))
       ELSE Raise(Exc("ValueError", <<"Invalid isoformat string">>))

\* v.replace("Z", "+00:00") then fromisoformat(...).strftime("%Y-%m-%d")
FormatCreated(v, modern) ==
    IF ~IsStr(v) THEN NoAttribute(v, "replace") ELSE IsoDate(ReplaceZ(v.s), modern)

----------------------------------------------------------------------------
(* JiraFetcher.__init__ *)

EnvNames == {"JIRA_SITE", "JIRA_EMAIL", "JIRA_API_TOKEN"}
Unset == [t |-> "unset"]

\* os.getenv(name, "")
Getenv(e, name) == IF e[name] = Unset THEN EmptyStr ELSE e[name]

NoFetcher == [t |-> "nofetcher"]

\* Faulty variant of AllCredentials: any(...) where the code has all(...)
AnyCredential(server, email, api_token) ==
    Truthy(server) \/ Truthy(email) \/ Truthy(api_token)

\* all([server, email, api_token])
AllCredentials(server, email, api_token) ==
    Truthy(server) /\ Truthy(email) /\ Truthy(api_token)

\* JiraFetcher(): the new object, or ValueError
InitFetcher(e) ==
    LET server == Getenv(e, "JIRA_SITE")
        email == Getenv(e, "JIRA_EMAIL")
        api_token == Getenv(e, "JIRA_API_TOKEN")
    IN IF ~AllCredentials(server, email, api_token)
       THEN Raise(Exc("ValueError", <<"Missing required Jira environment variables">>))
       ELSE Ret([t |-> "fetcher", server |-> server, email |-> email,
                 api_token |-> api_token,
                 jira |-> [url |-> server, username |-> email,
                           password |-> api_token, cloud |-> TRUE]])

----------------------------------------------------------------------------
(* JiraFetcher.get_issue *)

\* An argument the caller leaves out takes the parameter's default.
Omitted == [t |-> "omitted"]
ArgOr(arg, default) == IF arg = Omitted THEN default ELSE arg

\* self.jira.issue(issue_key, expand=expand)
IssueCall(issue_key, expand) ==
    [m |-> "issue", issue_key |-> issue_key, expand |-> expand]

ErrorRecord(issue_key, msg) == Dict([key |-> issue_key, error |-> msg])

\* iter(v): the items a for loop or a comprehension visits, or TypeError
Iterate(v) ==
    CASE v.t = "list" -> Ret(v.l)
      [] v.t = "str" -> Ret([i \in DOMAIN v.s |-> Atom(v.s[i])])
      [] v.t = "dict" ->
            LET keys == DOMAIN v.d
                order == CHOOSE q \in [1..Cardinality(keys) -> keys] :
                            \A i, j \in DOMAIN q : i # j => q[i] # q[j]
            IN Ret([i \in DOMAIN order |-> Atom(order[i])])
      [] OTHER -> Raise(Exc("TypeError", <<v.t, " object is not iterable">>))

\* The body of the comment loop once the comment's body has been cleaned
CommentRecord(comment, processed_comment, modern) ==
    LET created_date ==
            FormatCreated(DictGet(comment, "created", DefaultCreated), modern)
    IN IF ~created_date.ok THEN created_date
       ELSE LET author == NestedGet(comment, "author", "displayName", Atom("Unknown"))
       IN IF ~author.ok THEN author
       ELSE Ret(Dict([body |-> processed_comment,
                      created |-> created_date.v,
                      author |-> author.v]))

\* The body of the comment loop for one comment
ProcessComment(comment, modern) ==
    LET body == PyGet(comment, "body", EmptyStr)
    IN IF ~body.ok THEN body
       ELSE CHOOSE c \in
              {IF ~processed_comment.ok THEN processed_comment
               ELSE CommentRecord(comment, processed_comment.v, modern) :
               processed_comment \in {CleanText(body.v)}} : TRUE

\* Faulty variant of CommentLoop: a comment that cannot be processed is skipped
RECURSIVE CommentLoopSkipping(_, _, _, _)
CommentLoopSkipping(items, i, comments, modern) ==
    IF i > Len(items) THEN Ret(List(comments))
    ELSE CHOOSE rest \in
           {CommentLoopSkipping(items, i + 1,
                IF c.ok THEN Append(comments, c.v) ELSE comments, modern) :
            c \in {ProcessComment(items[i], modern)}} : TRUE

\* The comment loop from item i on, `comments` being the list built so far
RECURSIVE CommentLoop(_, _, _, _)
CommentLoop(items, i, comments, modern) ==
    IF i > Len(items) THEN Ret(List(comments))
    ELSE CHOOSE rest \in
           {IF ~c.ok THEN c
            ELSE CommentLoop(items, i + 1, Append(comments, c.v), modern) :
            c \in {ProcessComment(items[i], modern)}} : TRUE

\* "Get comments safely"
GetComments(fields, modern) ==
    LET comment == DictGet(fields, "comment", None)
    IN IF ~IsDict(comment) THEN Ret(List(<<>>))
       ELSE LET items == Iterate(DictGet(comment, "comments", List(<<>>)))
            IN IF ~items.ok THEN items
               ELSE CommentLoop(items.v, 1, <<>>, modern)

\* f"{self.server.rstrip('/')}/browse/{issue_key}"
IssueLink(self, issue_key) ==
    Str(RStripSlash(self.server.s) \o <<"/", "browse", "/">> \o Format(issue_key))

\* The dict display of the "Structure response" return: the values are
\* evaluated in order, the first exception ends the evaluation.
StructureResponse(self, issue_key, fields, description, comments, formatted_created) ==
    LET type == NestedGet(fields, "issuetype", "name", Atom("Unknown"))
        status == NestedGet(fields, "status", "name", Atom("Unknown"))
        priority == NestedGet(fields, "priority", "name", Atom("None"))
        assignee == NestedGet(fields, "assignee", "displayName", Atom("Unassigned"))
        reporter == NestedGet(fields, "reporter", "displayName", Atom("Unknown Reporter"))
    IN IF ~type.ok THEN type
       ELSE IF ~status.ok THEN status
       ELSE IF ~priority.ok THEN priority
       ELSE IF ~assignee.ok THEN assignee
       ELSE IF ~reporter.ok THEN reporter
       ELSE Ret(Dict([key |-> issue_key,
                      title |-> DictGet(fields, "summary", Atom("No Summary")),
                      type |-> type.v,
                      status |-> status.v,
                      created |-> formatted_created,
                      priority |-> priority.v,
                      description |-> description,
                      assignee |-> assignee.v,
                      reporter |-> reporter.v,
                      comments |-> comments,
                      link |-> IssueLink(self, issue_key)]))

\* The try block of get_issue once description and comments are processed:
\* "Format created date", then "Structure response"
FormatAndStructure(self, issue_key, fields, description, comments, modern) ==
    LET formatted_created ==
            FormatCreated(DictGet(fields, "created", DefaultCreated), modern)
    IN IF ~formatted_created.ok THEN formatted_created
       ELSE StructureResponse(self, issue_key, fields, description,
                              comments, formatted_created.v)

\* The try block of get_issue from "Clean and process description" on
ProcessFields(self, issue_key, fields, modern) ==
    CHOOSE out \in
        {IF ~description.ok THEN description
         ELSE IF ~comments.ok THEN comments
         ELSE FormatAndStructure(self, issue_key, fields, description.v,
                                 comments.v, modern) :
         description \in {CleanText(DictGet(fields, "description", EmptyStr))},
         comments \in {GetComments(fields, modern)}} : TRUE

\* The try block of get_issue after the client has returned `issue`
ProcessIssue(self, issue_key, issue, modern) ==
    IF ~Truthy(issue) \/ ~IsDict(issue)
    THEN Ret(ErrorRecord(issue_key, Atom("Issue not found or missing data")))
    ELSE LET fields == DictGet(issue, "fields", EmptyDict)
    IN IF ~IsDict(fields)
       THEN Ret(ErrorRecord(issue_key, Atom("Issue missing fields")))
       ELSE ProcessFields(self, issue_key, fields, modern)

\* The try block of get_issue: `answer` is what self.jira.issue(...) does
\* (returns a value or raises).
GetIssueTry(self, issue_key, answer, modern) ==
    IF ~answer.ok THEN answer ELSE ProcessIssue(self, issue_key, answer.v, modern)

\* Faulty variant of GetIssueExcept: no except clause, the exception propagates
GetIssueNoExcept(issue_key, outcome) == outcome

\* except Exception as e: return {"key": issue_key, "error": str(e)}
GetIssueExcept(issue_key, outcome) ==
    IF outcome.ok THEN outcome
    ELSE Ret(ErrorRecord(issue_key, StrOfExc(outcome.exc)))

\* Faulty variant of GetIssueCalls: the call is made a second time (a retry)
GetIssueCallsRetried(issue_key, expand) ==
    <<IssueCall(issue_key, expand), IssueCall(issue_key, expand)>>

\* The client calls one get_issue makes
GetIssueCalls(issue_key, expand) == <<IssueCall(issue_key, expand)>>

\* get_issue(issue_key, expand): what it returns or raises, and the client
\* calls it made
GetIssue(self, issue_key, expand, answer, modern) ==
    [out |-> GetIssueExcept(issue_key, GetIssueTry(self, issue_key, answer, modern)),
     calls |-> GetIssueCalls(issue_key, expand)]

----------------------------------------------------------------------------
(* JiraFetcher.search_issues, get_project_issues, get_all_projects *)

SearchDefaultStart == 0
SearchDefaultLimit == 50
ProjectDefaultStart == 0
ProjectDefaultLimit == 50

\* self.jira.jql(jql, fields=fields, start=start, limit=limit, expand=expand)
JqlCall(jql, fields, start, limit, expand) ==
    [m |-> "jql", jql |-> jql, fields |-> fields, start |-> start,
     limit |-> limit, expand |-> expand]

\* self.jira.projects()
ProjectsCall == [m |-> "projects"]

\* "issues" in results
ContainsIssues(results) ==
    CASE results.t = "dict" -> Ret("issues" \in DOMAIN results.d)
      [] results.t = "list" -> Ret(\E i \in DOMAIN results.l : results.l[i] = Atom("issues"))
      [] results.t = "str" -> Ret(\E i \in DOMAIN results.s : results.s[i] = "issues")
      [] OTHER -> Raise(Exc("TypeError", <<results.t, " object is not iterable">>))

\* "error" not in doc
HasNoError(doc) == "error" \notin DOMAIN doc.d

\* Faulty variant of SearchLoop: every record is kept, error records too
RECURSIVE SearchLoopKeepingErrors(_, _, _, _, _, _, _, _)
SearchLoopKeepingErrors(self, entries, i, documents, made, expand, answers, modern) ==
    IF i > Len(entries) THEN [out |-> Ret(List(documents)), calls |-> made]
    ELSE LET key == PyGet(entries[i], "key", Atom("UNKNOWN"))
         IN IF ~key.ok THEN [out |-> key, calls |-> made]
            ELSE CHOOSE rest \in
                   {IF ~doc.out.ok THEN [out |-> doc.out, calls |-> made \o doc.calls]
                    ELSE SearchLoopKeepingErrors(self, entries, i + 1,
                            Append(documents, doc.out.v),
                            made \o doc.calls, expand, answers, modern) :
                    doc \in {GetIssue(self, key.v, expand, answers[i], modern)}} : TRUE

\* The loop of search_issues from entry i on: `documents` is the list built
\* so far, `made` the client calls made so far, answers[i] what the client
\* does on the issue() call for entry i.
RECURSIVE SearchLoop(_, _, _, _, _, _, _, _)
SearchLoop(self, entries, i, documents, made, expand, answers, modern) ==
    IF i > Len(entries) THEN [out |-> Ret(List(documents)), calls |-> made]
    ELSE LET key == PyGet(entries[i], "key", Atom("UNKNOWN"))
         IN IF ~key.ok THEN [out |-> key, calls |-> made]
            ELSE CHOOSE rest \in
                   {IF ~doc.out.ok THEN [out |-> doc.out, calls |-> made \o doc.calls]
                    ELSE SearchLoop(self, entries, i + 1,
                            IF HasNoError(doc.out.v)
                            THEN Append(documents, doc.out.v) ELSE documents,
                            made \o doc.calls, expand, answers, modern) :
                    doc \in {GetIssue(self, key.v, expand, answers[i], modern)}} : TRUE

\* The try block of search_issues after the client has returned `results`
ProcessResults(self, results, expand, answers, modern) ==
    IF ~Truthy(results) THEN [out |-> Ret(List(<<>>)), calls |-> <<>>]
    ELSE LET has == ContainsIssues(results)
    IN IF ~has.ok THEN [out |-> has, calls |-> <<>>]
       ELSE IF ~has.v THEN [out |-> Ret(List(<<>>)), calls |-> <<>>]
       ELSE LET issues == PyGet(results, "issues", List(<<>>))
       IN IF ~issues.ok THEN [out |-> issues, calls |-> <<>>]
       ELSE LET entries == Iterate(issues.v)
       IN IF ~entries.ok THEN [out |-> entries, calls |-> <<>>]
       ELSE SearchLoop(self, entries.v, 1, <<>>, <<>>, expand, answers, modern)

\* Faulty variant of SearchExcept: no except clause, the exception propagates
SearchNoExcept(outcome) == outcome

\* except Exception as e: return []   (search_issues)
SearchExcept(outcome) == IF outcome.ok THEN outcome ELSE Ret(List(<<>>))

\* search_issues(jql, fields, start, limit, expand): `answer` is what the
\* client's jql() does, answers[i] what its issue() does for entry i.
SearchIssues(self, jql, fields, start, limit, expand, answer, answers, modern) ==
    CHOOSE run \in
        {[out |-> SearchExcept(rest.out),
          calls |-> <<JqlCall(jql, fields, start, limit, expand)>> \o rest.calls] :
         rest \in {IF ~answer.ok THEN [out |-> answer, calls |-> <<>>]
                   ELSE ProcessResults(self, answer.v, expand, answers, modern)}} : TRUE

\* f"project = {project_key} ORDER BY created DESC"
ProjectJql(project_key) ==
    Str(<<"project = ">> \o Format(project_key) \o <<" ORDER BY created DESC">>)

\* Faulty variant of GetProjectIssues: start and limit are not forwarded, the
\* search runs with its own defaults
GetProjectIssuesFirstPage(self, project_key, start, limit, answer, answers, modern) ==
    SearchIssues(self, ProjectJql(project_key), Atom("*all"),
                 PyInt(SearchDefaultStart), PyInt(SearchDefaultLimit), None,
                 answer, answers, modern)

\* get_project_issues(project_key, start, limit)
GetProjectIssues(self, project_key, start, limit, answer, answers, modern) ==
    SearchIssues(self, ProjectJql(project_key), Atom("*all"), start, limit, None,
                 answer, answers, modern)

\* Faulty variant of ProjectList: an entry that is no dict is skipped
RECURSIVE ProjectListSkipping(_, _, _)
ProjectListSkipping(items, i, project_list) ==
    IF i > Len(items) THEN Ret(List(project_list))
    ELSE LET key == PyGet(items[i], "key", None)
             name == PyGet(items[i], "name", None)
         IN ProjectListSkipping(items, i + 1,
                IF key.ok /\ name.ok
                THEN Append(project_list, Dict([key |-> key.v, name |-> name.v]))
                ELSE project_list)

\* [{"key": project.get("key"), "name": project.get("name")} for project in
\* projects] from item i on
RECURSIVE ProjectList(_, _, _)
ProjectList(items, i, project_list) ==
    IF i > Len(items) THEN Ret(List(project_list))
    ELSE LET key == PyGet(items[i], "key", None)
             name == PyGet(items[i], "name", None)
         IN IF ~key.ok THEN key
            ELSE IF ~name.ok THEN name
            ELSE ProjectList(items, i + 1,
                             Append(project_list, Dict([key |-> key.v, name |-> name.v])))

\* The try block of get_all_projects after the client has returned
ProcessProjects(projects) ==
    IF ~Truthy(projects) THEN Ret(List(<<>>))
    ELSE LET items == Iterate(projects)
         IN IF ~items.ok THEN items ELSE ProjectList(items.v, 1, <<>>)

\* except Exception as e: return []   (get_all_projects)
ProjectsExcept(outcome) == IF outcome.ok THEN outcome ELSE Ret(List(<<>>))

\* The client calls one get_all_projects makes
GetAllProjectsCalls == <<ProjectsCall>>

\* get_all_projects(): `answer` is what the client's projects() does
GetAllProjects(answer) ==
    [out |-> ProjectsExcept(IF ~answer.ok THEN answer ELSE ProcessProjects(answer.v)),
     calls |-> GetAllProjectsCalls]

----------------------------------------------------------------------------
(* The environment and the external client: what the model draws from *)

SeqsUpTo(S, n) == UNION {[1..k -> S] : k \in 0..n}

Without(f, k) == [x \in DOMAIN f \ {k} |-> f[x]]
With(f, k, v) == (k :> v) @@ f

SiteValues == {Unset, EmptyStr, Str(<<"https://acme.atlassian.net", "/">>)}
SecretValues == {Unset, EmptyStr, Atom("secret")}

Environments ==
    {e \in [EnvNames -> SiteValues \cup SecretValues] :
        /\ e["JIRA_SITE"] \in SiteValues
        /\ e["JIRA_EMAIL"] \in SecretValues
        /\ e["JIRA_API_TOKEN"] \in SecretValues}

IssueKeys == {Atom("PROJ-1"), Atom("PROJ-2")}
ExpandArgs == {Omitted, Atom("changelog")}
NotFound == Exc("HTTPError", <<"404 Client Error">>)
ClientErrors == {NotFound, Exc("ConnectionError", <<>>)}

Named(n) == Dict([name |-> Atom(n)])
Person(n) == Dict([displayName |-> Atom(n)])

MarkupText ==
    Str(<<"{", "{", "x", "}", "}", "See", " ", "[", "docs", "|", "http://x", "]",
          NL, NL, "!", "img.png", "!">>)
ValidCreated == Str(<<"2024-01-15", "T", "10:30:00", ".000", "+00:00">>)

NameFields == {"issuetype", "status", "priority"}
PersonFields == {"assignee", "reporter"}
OptionalFields == {"summary", "description"} \cup NameFields \cup PersonFields

FieldValue(k) ==
    CASE k = "summary" -> Atom("Login fails")
      [] k = "description" -> MarkupText
      [] k = "issuetype" -> Named("Bug")
      [] k = "status" -> Named("Open")
      [] k = "priority" -> Named("High")
      [] k = "assignee" -> Person("Ada")
      [] k = "reporter" -> Person("Grace")

\* The issue the client returns for `fields`; its own "key" is the key the
\* server reports (another one once the issue has moved).
Issue(fields) == Dict([key |-> Atom("MOVED-7"), fields |-> Dict(fields)])

\* Each optional field is set, or has no value: the key is absent ("absent")
\* or its value is null ("null").
Presences ==
    [OptionalFields -> {"absent", "value"}] \cup [OptionalFields -> {"null", "value"}]

FieldsWith(presence) ==
    LET keys == {k \in OptionalFields : presence[k] # "absent"}
        opt == [k \in keys |-> IF presence[k] = "null" THEN None ELSE FieldValue(k)]
    IN With(opt, "created", ValidCreated)

BaseFields == FieldsWith([k \in OptionalFields |-> "value"])

OddValues == {Atom("oops"), EmptyDict, PyInt(3)}

CreatedValues ==
    {Str(<<"2024-02-29", "T", "10:30:00", ".000", "+0000">>),
     Str(<<"2024-02-29", "T", "10:30:00", "Z">>),
     Atom("2024-02-29"), Atom("yesterday"), EmptyStr, None, PyInt(1705314600)}

DescriptionValues ==
    {EmptyStr, PyInt(0), Dict([type |-> Atom("doc")]),
     Str(<<"{", "!", "!", "{", "}", "}">>)}

CommentEntries ==
    {Dict([body |-> MarkupText, created |-> ValidCreated, author |-> Person("Ada")]),
     EmptyDict,
     None,
     Dict([body |-> Atom("ok"), author |-> None]),
     Dict([body |-> Atom("ok"), created |-> Atom("yesterday")]),
     Dict([body |-> PyInt(5)])}

CommentValues ==
    {None, Atom("none"), EmptyDict, Dict([comments |-> None]),
     Dict([comments |-> Atom("ab")]), Dict([comments |-> Dict([total |-> PyInt(0)])])}
    \cup {Dict([comments |-> List(l)]) : l \in SeqsUpTo(CommentEntries, MaxComments)}

\* What the client's issue() may do in answer to a get_issue
IssueAnswers ==
    {Raise(e) : e \in ClientErrors}
    \cup {Ret(v) : v \in {None, EmptyDict, Atom("<html>"), PyInt(0), List(<<>>)}}
    \cup {Ret(Dict([key |-> Atom("MOVED-7")]))}
    \cup {Ret(Dict([key |-> Atom("MOVED-7"), fields |-> v])) :
            v \in {None, Atom("x"), List(<<>>)}}
    \cup {Ret(Issue(FieldsWith(p))) : p \in Presences}
    \cup {Ret(Issue(With(BaseFields, k, v))) :
            k \in NameFields \cup PersonFields, v \in OddValues}
    \cup {Ret(Issue(With(BaseFields, "created", v))) : v \in CreatedValues}
    \cup {Ret(Issue(Without(BaseFields, "created")))}
    \cup {Ret(Issue(With(BaseFields, "description", v))) : v \in DescriptionValues}
    \cup {Ret(Issue(With(BaseFields, "comment", v))) : v \in CommentValues}

\* What the client's issue() may do in answer to a search's re-fetch
RefetchAnswers ==
    {Raise(NotFound),
     Ret(Issue(BaseFields)),
     Ret(Issue(With(BaseFields, "assignee", None)))}

SearchEntries ==
    {Dict([key |-> Atom("PROJ-1")]), Dict([id |-> Atom("10001")]), None}

\* What the client's jql() may do
JqlAnswers ==
    {Raise(e) : e \in ClientErrors}
    \cup {Ret(v) : v \in {None, EmptyDict, Dict([total |-> PyInt(0)]), PyInt(7),
                          Atom("issues"), List(<<Atom("issues")>>),
                          Dict([issues |-> None]), Dict([issues |-> Atom("PROJ-1")])}}
    \cup {Ret(Dict([issues |-> List(l)])) : l \in SeqsUpTo(SearchEntries, MaxIssues)}

\* The entries of the 'issues' list of a jql() answer (none when it has no
\* such list)
IssuesListed(answer) ==
    IF answer.ok /\ IsDict(answer.v) /\ "issues" \in DOMAIN answer.v.d
       /\ IsList(answer.v.d["issues"])
    THEN answer.v.d["issues"].l ELSE <<>>

ProjectEntries ==
    {Dict([key |-> Atom("PROJ"), name |-> Atom("Project"), id |-> Atom("1")]),
     Dict([key |-> Atom("OPS")]), EmptyDict, None, Atom("PROJ")}

\* What the client's projects() may do
ProjectsAnswers ==
    {Raise(e) : e \in ClientErrors}
    \cup {Ret(v) : v \in {None, PyInt(7), Dict([errorMessages |-> List(<<>>)])}}
    \cup {Ret(List(l)) : l \in SeqsUpTo(ProjectEntries, MaxProjects)}

JqlArgs == {Atom("assignee = currentUser()"), Atom("status = Open")}
ProjectKeys == {Atom("PROJ"), Atom("OPS")}
\* <<fields, start, limit, expand>> as the caller passes them
SearchOptions ==
    {<<Omitted, Omitted, Omitted, Omitted>>,
     <<Atom("summary"), PyInt(100), PyInt(25), Atom("changelog")>>}
\* <<start, limit>> as the caller passes them
PageOptions == {<<Omitted, Omitted>>, <<PyInt(100), PyInt(25)>>}

Alphabet == {"{", "}", "[", "]", "|", "!", NL, SP, "a"}

\* The arguments _clean_text is tried on
CleanInputs ==
    {None, PyInt(0), PyInt(5)}
    \cup {Str(s) : s \in SeqsUpTo(Alphabet, MaxLen)}
    \cup {MarkupText,
          Str(ColorOpen \o <<"red", "}", "hot", "{", "c", "o", "l", "o", "r", "}">>),
          Str(<<"{", "c", "o", "l">> \o ColorClose \o <<"o", "r", ":", "x", "}">>)}

----------------------------------------------------------------------------
(* The program: a caller constructs the fetcher and invokes its methods *)

NoOp == [name |-> "none", args |-> <<>>]
NoResult == Ret(None)

Init ==
    /\ env \in Environments
    /\ py311 \in BOOLEAN
    /\ fetcher = NoFetcher
    /\ pc = "start"
    /\ op = NoOp
    /\ prev = NoOp
    /\ script = <<>>
    /\ calls = <<>>
    /\ result = NoResult

\* jira_fetcher = JiraFetcher()
Construct ==
    /\ pc = "start"
    /\ LET made == InitFetcher(env)
       IN /\ op' = [name |-> "__init__", args |-> <<>>]
          /\ IF made.ok
             THEN fetcher' = made.v /\ result' = NoResult /\ pc' = "idle"
             ELSE fetcher' = NoFetcher /\ result' = made /\ pc' = "failed"
    /\ UNCHANGED <<env, py311, script, calls, prev>>

\* Only a caller that holds a fetcher and is between calls can invoke one of
\* its methods.
CanInvoke == pc = "idle" /\ fetcher # NoFetcher

\* The caller invokes a method of the fetcher; the method runs to its return
\* against a client that behaves as `answers` says.
Invoke(name, args, answers, run) ==
    /\ op' = [name |-> name, args |-> args]
    /\ script' = answers
    /\ calls' = run.calls
    /\ result' = run.out
    /\ pc' = "returned"
    /\ UNCHANGED <<env, py311, fetcher, prev>>

CallGetIssue ==
    /\ CanInvoke
    /\ \E issue_key \in IssueKeys, expand \in ExpandArgs, answer \in IssueAnswers :
           \E run \in {GetIssue(fetcher, issue_key, ArgOr(expand, None), answer, py311)} :
               Invoke("get_issue", <<issue_key, expand>>, <<answer>>, run)

CallSearchIssues ==
    /\ CanInvoke
    /\ \E jql \in JqlArgs, o \in SearchOptions, answer \in JqlAnswers :
           \E answers \in [1..Len(IssuesListed(answer)) -> RefetchAnswers] :
               \E run \in {SearchIssues(fetcher, jql, ArgOr(o[1], Atom("*all")),
                                          ArgOr(o[2], PyInt(SearchDefaultStart)),
                                          ArgOr(o[3], PyInt(SearchDefaultLimit)),
                                          ArgOr(o[4], None), answer, answers, py311)} :
                   Invoke("search_issues", <<jql>> \o o, <<answer>> \o answers, run)

CallGetProjectIssues ==
    /\ CanInvoke
    /\ \E project_key \in ProjectKeys, o \in PageOptions, answer \in JqlAnswers :
           \E answers \in [1..Len(IssuesListed(answer)) -> RefetchAnswers] :
               \E run \in {GetProjectIssues(fetcher, project_key,
                                              ArgOr(o[1], PyInt(ProjectDefaultStart)),
                                              ArgOr(o[2], PyInt(ProjectDefaultLimit)),
                                              answer, answers, py311)} :
                   Invoke("get_project_issues", <<project_key>> \o o,
                          <<answer>> \o answers, run)

CallGetAllProjects ==
    /\ CanInvoke
    /\ \E answer \in ProjectsAnswers :
           \E run \in {GetAllProjects(answer)} :
               Invoke("get_all_projects", <<>>, <<answer>>, run)

\* The caller takes the returned value and is ready for its next call.
Return ==
    /\ pc = "returned"
    /\ pc' = "idle"
    /\ prev' = op
    /\ op' = NoOp
    /\ script' = <<>>
    /\ calls' = <<>>
    /\ result' = NoResult
    /\ UNCHANGED <<env, py311, fetcher>>

Next ==
    \/ Construct
    \/ CallGetIssue
    \/ CallSearchIssues
    \/ CallGetProjectIssues
    \/ CallGetAllProjects
    \/ Return

Spec == Init /\ [][Next]_vars

\* _clean_text on its own, on every short text over the markup alphabet
CleanInit ==
    /\ Init
    /\ py311
    /\ \A n \in EnvNames : env[n] \notin {Unset, EmptyStr}

CallCleanText ==
    /\ CanInvoke
    /\ \E text \in CleanInputs :
           \E run \in {[out |-> CleanText(text), calls |-> <<>>]} :
               Invoke("_clean_text", <<text>>, <<>>, run)

NextClean == Construct \/ CallCleanText

SpecClean == CleanInit /\ [][NextClean]_vars

----------------------------------------------------------------------------
(* Properties *)

ErrorKeys == {"key", "error"}
FullKeys == {"key", "title", "type", "status", "created", "priority",
             "description", "assignee", "reporter", "comments", "link"}

\* The method `name` has just returned
Returned(name) == pc = "returned" /\ op.name = name

\* d is the error record of issue_key
IsErrorRecord(d, issue_key) ==
    IsDict(d) /\ DOMAIN d.d = ErrorKeys /\ d.d["key"] = issue_key /\ IsStr(d.d["error"])

\* The 'fields' dict of an issue the client returned (the empty function when
\* there is none)
FieldsOf(v) ==
    IF IsDict(v) /\ "fields" \in DOMAIN v.d /\ IsDict(v.d["fields"])
    THEN v.d["fields"].d ELSE [k \in {} |-> None]

\* The comments an issue the client returned lists
CommentsListed(v) ==
    LET f == FieldsOf(v)
    IN IF "comment" \in DOMAIN f /\ IsDict(f["comment"])
          /\ "comments" \in DOMAIN f["comment"].d
          /\ IsList(f["comment"].d["comments"])
       THEN f["comment"].d["comments"].l ELSE <<>>

\* The client returned something get_issue cannot use: nothing, no dict, a
\* dict whose 'fields' is no dict, a comment that is no dict, a date that is
\* no ISO date.
Unusable(v) ==
    \/ ~Truthy(v)
    \/ ~IsDict(v)
    \/ "fields" \in DOMAIN v.d /\ ~IsDict(v.d["fields"])
    \/ \E i \in DOMAIN CommentsListed(v) : ~IsDict(CommentsListed(v)[i])
    \/ "created" \in DOMAIN FieldsOf(v)
       /\ FieldsOf(v)["created"] \in {None, Atom("yesterday"), PyInt(1705314600)}

\* C1: get_issue is total. Whatever the client does, get_issue returns a
\* dict and raises nothing; when the client call raises, or returns
\* something unusable, or a later step of the processing fails, the dict is
\* the error record {"key": issue_key, "error": <message>}.
C1_GetIssueTotal ==
    Returned("get_issue") =>
        LET issue_key == op.args[1]
            answer == script[1]
        IN /\ result.ok
           /\ IsDict(result.v)
           /\ ~answer.ok =>
                result.v = Dict([key |-> issue_key, error |-> Str(answer.exc.msg)])
           /\ answer.ok /\ Unusable(answer.v) => IsErrorRecord(result.v, issue_key)
           /\ ~GetIssueTry(fetcher, issue_key, answer, py311).ok =>
                IsErrorRecord(result.v, issue_key)

\* A get_issue whose client answer carried an unparsable date came back with
\* the error record.
C1_Witness ==
    /\ Returned("get_issue")
    /\ script[1].ok
    /\ "created" \in DOMAIN FieldsOf(script[1].v)
    /\ FieldsOf(script[1].v)["created"] = Atom("yesterday")
    /\ result = Ret(Dict([key |-> op.args[1],
                          error |-> Str(<<"Invalid isoformat string">>)]))

\* C2: search_issues raises nothing and returns a list; the list is empty
\* when the jql call raises, when the response is falsy, when the response
\* has no 'issues' entry, and when an entry of 'issues' is no dict (whatever
\* was collected before it is discarded).
C2_SearchNeverRaises ==
    Returned("search_issues") =>
        LET answer == script[1]
            entries == IssuesListed(answer)
        IN /\ result.ok
           /\ IsList(result.v)
           /\ ~answer.ok => result.v.l = <<>>
           /\ answer.ok /\ ~Truthy(answer.v) => result.v.l = <<>>
           /\ answer.ok /\ IsDict(answer.v) /\ "issues" \notin DOMAIN answer.v.d =>
                result.v.l = <<>>
           /\ (\E i \in DOMAIN entries : ~IsDict(entries[i])) => result.v.l = <<>>

\* A search collected the record of its first entry, met a second entry that
\* is no dict, and returned the empty list.
C2_Witness ==
    /\ Returned("search_issues")
    /\ IssuesListed(script[1]) = <<Dict([key |-> Atom("PROJ-1")]), None>>
    /\ script[2] = Ret(Issue(BaseFields))
    /\ Len(calls) = 2
    /\ result = Ret(List(<<>>))

\* The key search_issues fetches an entry under
EntryKey(entry) == DictGet(entry, "key", Atom("UNKNOWN"))

\* C3: every element of the list search_issues returns is a full record
\* without 'error'; the list is no longer than the response's 'issues'; and
\* for a response listing issues k1..kn it is exactly the records
\* get_issue(ki) that came back without an error, in response order.
C3_SearchResultIsSubsequence ==
    Returned("search_issues") /\ result.ok /\ IsList(result.v) =>
        LET entries == IssuesListed(script[1])
            expand == ArgOr(op.args[5], None)
            records == [i \in DOMAIN entries |->
                          GetIssue(fetcher, EntryKey(entries[i]), expand,
                                   script[i + 1], py311).out.v]
        IN /\ \A j \in DOMAIN result.v.l :
                IsDict(result.v.l[j]) /\ DOMAIN result.v.l[j].d = FullKeys
           /\ Len(result.v.l) <= Len(entries)
           /\ (\A i \in DOMAIN entries : IsDict(entries[i])) =>
                result.v.l = SelectSeq(records, HasNoError)

\* A search listed two issues, the re-fetch of the first failed (it was
\* deleted meanwhile), and the result is the record of the second alone.
C3_Witness ==
    /\ Returned("search_issues")
    /\ IssuesListed(script[1]) = <<Dict([key |-> Atom("PROJ-1")]), Dict([id |-> Atom("10001")])>>
    /\ script[2] = Raise(NotFound)
    /\ script[3] = Ret(Issue(BaseFields))
    /\ Len(result.v.l) = 1
    /\ result.v.l[1].d["key"] = Atom("UNKNOWN")

\* The jql() call a search_issues with the arguments of `op` makes
SearchJqlCall ==
    [m |-> "jql", jql |-> op.args[1],
     fields |-> ArgOr(op.args[2], Atom("*all")),
     start |-> ArgOr(op.args[3], PyInt(0)),
     limit |-> ArgOr(op.args[4], PyInt(50)),
     expand |-> ArgOr(op.args[5], None)]

\* One issue() call per entry of `entries`, in order
IssueCallsFor(entries, expand) ==
    [i \in DOMAIN entries |->
        [m |-> "issue",
         issue_key |-> IF IsDict(entries[i]) THEN EntryKey(entries[i])
                       ELSE Atom("UNKNOWN"),
         expand |-> expand]]

\* The entries before the first one that is no dict
RECURSIVE LeadingDicts(_)
LeadingDicts(entries) ==
    IF entries = <<>> \/ ~IsDict(Head(entries)) THEN <<>>
    ELSE <<Head(entries)>> \o LeadingDicts(Tail(entries))

\* C4 as stated: get_issue makes exactly one issue() call; search_issues
\* makes one jql() call, then one issue() call per entry of the response's
\* 'issues' list, in list order.
C4_OneIssueCallPerEntry ==
    /\ Returned("get_issue") =>
         calls = <<[m |-> "issue", issue_key |-> op.args[1],
                    expand |-> ArgOr(op.args[2], None)]>>
    /\ Returned("search_issues") =>
         calls = <<SearchJqlCall>>
                 \o IssueCallsFor(IssuesListed(script[1]), ArgOr(op.args[5], None))

\* C4 (amended): get_issue makes exactly one issue() call; search_issues
\* makes one jql() call, then one issue() call per entry of the response's
\* 'issues' list that comes before the first entry that is no dict, in list
\* order; no call is repeated, whether it failed or not, and an invocation
\* that repeats the one before it makes its calls again.
C4_NoRetryNoCache ==
    /\ Returned("get_issue") =>
         calls = <<[m |-> "issue", issue_key |-> op.args[1],
                    expand |-> ArgOr(op.args[2], None)]>>
    /\ Returned("search_issues") =>
         calls = <<SearchJqlCall>>
                 \o IssueCallsFor(LeadingDicts(IssuesListed(script[1])),
                                  ArgOr(op.args[5], None))

\* A search that repeats the search before it, with the same arguments, has
\* made its jql() call and both its issue() calls again, the first of which
\* failed and was not repeated.
C4_Witness ==
    /\ Returned("search_issues")
    /\ prev = op
    /\ Len(IssuesListed(script[1])) = 2
    /\ ~script[2].ok
    /\ Len(calls) = 3
    /\ calls[2].issue_key # calls[3].issue_key

\* The number of jql() calls among the calls made
JqlCallCount == Cardinality({i \in DOMAIN calls : calls[i].m = "jql"})

\* C5: get_project_issues(project_key, start, limit) makes exactly one jql()
\* call, with the query 'project = <project_key> ORDER BY created DESC', the
\* caller's start and limit (0 and 50 when left out), fields '*all' and
\* expand None; search_issues forwards its five arguments unchanged; what
\* an earlier invocation asked for changes nothing.
C5_PaginationPassThrough ==
    /\ Returned("get_project_issues") =>
         /\ JqlCallCount = 1
         /\ calls[1] = [m |-> "jql",
                        jql |-> Str(<<"project = ">> \o op.args[1].s
                                    \o <<" ORDER BY created DESC">>),
                        fields |-> Atom("*all"),
                        start |-> IF op.args[2] = Omitted THEN PyInt(0) ELSE op.args[2],
                        limit |-> IF op.args[3] = Omitted THEN PyInt(50) ELSE op.args[3],
                        expand |-> None]
    /\ Returned("search_issues") =>
         /\ JqlCallCount = 1
         /\ calls[1] = SearchJqlCall

\* The same page of the same project was asked for twice in a row, and the
\* second request went to the client with the caller's start and limit.
C5_Witness ==
    /\ Returned("get_project_issues")
    /\ prev = op
    /\ op.args[2] = PyInt(100)
    /\ calls[1].start = PyInt(100)
    /\ calls[1].limit = PyInt(25)

\* The default of an optional field of the result
DefaultOf(k) ==
    CASE k = "summary" -> Atom("No Summary")
      [] k = "issuetype" -> Atom("Unknown")
      [] k = "status" -> Atom("Unknown")
      [] k = "priority" -> Atom("None")
      [] k = "assignee" -> Atom("Unassigned")
      [] k = "reporter" -> Atom("Unknown Reporter")
      [] k = "description" -> EmptyStr

\* The key of the result an optional field of the response goes to
ResultKey(k) ==
    CASE k = "summary" -> "title"
      [] k = "issuetype" -> "type"
      [] OTHER -> k

\* The value an optional field that is set carries into the result
ValueOf(k, v) ==
    CASE k \in NameFields -> v.d["name"]
      [] k \in PersonFields -> v.d["displayName"]
      [] OTHER -> v

\* The response is a dict whose 'fields' is a dict with a valid 'created',
\* no comments, and every optional field either set or without a value.
PlainIssue(v) ==
    /\ IsDict(v) /\ "fields" \in DOMAIN v.d /\ IsDict(v.d["fields"])
    /\ LET f == v.d["fields"].d
       IN /\ "created" \in DOMAIN f /\ f["created"] = ValidCreated
          /\ "comment" \notin DOMAIN f
          /\ \A k \in OptionalFields \cap DOMAIN f : f[k] \in {None, FieldValue(k)}

\* C6: for such a response get_issue returns a full record without 'error'
\* in which an optional field without a value (key absent, or value null)
\* carries its default and a field that is set carries its value.
C6_OptionalFieldDefaults ==
    Returned("get_issue") /\ script[1].ok /\ PlainIssue(script[1].v) =>
        LET f == script[1].v.d["fields"].d
        IN /\ result.ok
           /\ DOMAIN result.v.d = FullKeys
           /\ \A k \in OptionalFields :
                IF k \notin DOMAIN f \/ f[k] = None
                THEN result.v.d[ResultKey(k)] = DefaultOf(k)
                ELSE k # "description" => result.v.d[ResultKey(k)] = ValueOf(k, f[k])

\* C7: a fetcher exists only with complete credentials. Construction raises
\* ValueError and leaves no fetcher and no client when one of the three
\* variables is unset or empty, succeeds when all are non-empty, and no
\* client call is made without all three.
CredentialsComplete == \A n \in EnvNames : env[n] # Unset /\ env[n] # EmptyStr

C7_FetcherOnlyWithCredentials ==
    /\ fetcher # NoFetcher =>
         /\ CredentialsComplete
         /\ fetcher.jira = [url |-> env["JIRA_SITE"], username |-> env["JIRA_EMAIL"],
                            password |-> env["JIRA_API_TOKEN"], cloud |-> TRUE]
    /\ pc = "failed" =>
         ~CredentialsComplete /\ fetcher = NoFetcher
         /\ ~result.ok /\ result.exc.type = "ValueError"
    /\ pc # "start" /\ CredentialsComplete => fetcher # NoFetcher
    /\ pc # "start" /\ ~CredentialsComplete => pc = "failed"
    /\ calls # <<>> => CredentialsComplete

\* Construction was tried with an empty JIRA_API_TOKEN, the site and the
\* e-mail being set, and raised.
C7_Witness ==
    /\ pc = "failed"
    /\ env["JIRA_API_TOKEN"] = EmptyStr
    /\ Truthy(Getenv(env, "JIRA_SITE"))
    /\ Truthy(Getenv(env, "JIRA_EMAIL"))

\* C8: get_all_projects raises nothing, makes exactly one projects() call,
\* and returns either one {'key', 'name'} dict per project of the response,
\* in response order, or the empty list (the call raised, the response is
\* empty, or one entry is no dict): never a part of the list.
C8_ProjectsAllOrNothing ==
    Returned("get_all_projects") =>
        LET answer == script[1]
            listed == IF answer.ok /\ IsList(answer.v) THEN answer.v.l ELSE <<>>
            wellFormed == /\ answer.ok /\ IsList(answer.v)
                          /\ \A i \in DOMAIN listed : IsDict(listed[i])
        IN /\ result.ok
           /\ IsList(result.v)
           /\ calls = <<[m |-> "projects"]>>
           /\ IF wellFormed
              THEN /\ Len(result.v.l) = Len(listed)
                   /\ \A i \in DOMAIN listed :
                        result.v.l[i] = Dict([key |-> DictGet(listed[i], "key", None),
                                              name |-> DictGet(listed[i], "name", None)])
              ELSE result.v.l = <<>>

\* The response listed a project and then an entry that is no dict, and the
\* result is the empty list.
C8_Witness ==
    /\ Returned("get_all_projects")
    /\ script[1].ok /\ IsList(script[1].v) /\ Len(script[1].v.l) = 2
    /\ IsDict(script[1].v.l[1]) /\ "key" \in DOMAIN script[1].v.l[1].d
    /\ ~IsDict(script[1].v.l[2])
    /\ result = Ret(List(<<>>))

\* C9: the dict get_issue returns has 'key' equal to the issue_key argument
\* and is either an error record with exactly {key, error} or a full record
\* with exactly the eleven content keys; in a full record 'comments' has one
\* entry per comment of the response, in the response's order.
C9_GetIssueShape ==
    Returned("get_issue") /\ result.ok /\ IsDict(result.v) =>
        /\ "key" \in DOMAIN result.v.d
        /\ result.v.d["key"] = op.args[1]
        /\ DOMAIN result.v.d \in {ErrorKeys, FullKeys}
        /\ DOMAIN result.v.d = FullKeys =>
             LET listed == CommentsListed(script[1].v)
                 comments == result.v.d["comments"]
             IN /\ IsList(comments)
                /\ Len(comments.l) = Len(listed)
                /\ \A i \in DOMAIN listed :
                     /\ DOMAIN comments.l[i].d = {"body", "created", "author"}
                     /\ Ret(comments.l[i].d["body"])
                            = CleanText(DictGet(listed[i], "body", EmptyStr))

\* A full record came back for an issue the server reports under another
\* key, with two comments of different bodies in the response's order.
C9_Witness ==
    /\ Returned("get_issue")
    /\ result.ok
    /\ DOMAIN result.v.d = FullKeys
    /\ script[1].v.d["key"] # op.args[1]
    /\ Len(result.v.d["comments"].l) = 2
    /\ result.v.d["comments"].l[1].d["body"] = EmptyStr
    /\ result.v.d["comments"].l[2].d["body"] = Str(<<"See", " ", "docs">>)

\* C10: _clean_text produces a normal form: cleaning a cleaned text changes
\* nothing, and _clean_text of None or of the empty string is ''.
C10_CleanTextNormalForm ==
    Returned("_clean_text") /\ (IsStr(op.args[1]) \/ IsNone(op.args[1])) =>
        /\ result.ok
        /\ CleanText(result.v) = result
        /\ ~Truthy(op.args[1]) => result.v = EmptyStr

====
